---- MODULE Spec2Model ----
(***************************************************************************)
(* A model of custom_columnar.py: the CCF columnar file format, its writer *)
(* (CCFWriter.write), its reader (CCFReader._read_header, read_column) and *)
(* the type inference used by the CSV front end (infer_type).              *)
(*                                                                         *)
(* Text is a sequence of Unicode code points (<<51, 48>> is "30"), a file  *)
(* or buffer is a sequence of bytes (0..255), None is the value NoneVal.   *)
(***************************************************************************)
EXTENDS Integers, Sequences, FiniteSets, TLC

VARIABLES
    schema,     \* header_cols given to CCFWriter.write: <<name, dtype>> pairs
    rows,       \* rows given to CCFWriter.write, and the values given to infer_type
    disk,       \* the file at out_path / path: [exists, bytes]
    wres,       \* outcome of CCFWriter.write: "none" before the call
    rd,         \* the CCFReader object: state, num_rows, num_cols, columns_meta
    reads,      \* file positions (0-based) the reader has read since construction
    asked,      \* column names read_column was called with since construction
    ret,        \* outcome of the last read_column call
    inferred    \* result of infer_type, -1 before the call

vars == <<schema, rows, disk, wres, rd, reads, asked, ret, inferred>>

(***************************************************************************)
(* Constants of the source.                                                *)
(***************************************************************************)
MAGIC == <<67, 67, 70, 118, 49, 0, 0>>
VERSION == 1
DT_INT32 == 0
DT_FLOAT64 == 1
DT_STRING == 2
\* struct formats '<B', '<H': the number of values an unsigned field holds
U8_RANGE == 256
U16_RANGE == 65536

NoneVal == <<-1>>

(***************************************************************************)
(* Sequence helpers.                                                       *)
(***************************************************************************)
Min(a, b) == IF a < b THEN a ELSE b
Max(a, b) == IF a > b THEN a ELSE b

\* bs[from .. to-1] with 0-based positions, clamped as a Python slice is
Slice(bs, from, to) ==
    LET hi == Min(to, Len(bs))
        lo == Min(from, Len(bs))
    IN  IF hi <= lo THEN <<>> ELSE [k \in 1..(hi - lo) |-> bs[lo + k]]

RECURSIVE ConcatRange(_, _, _)
ConcatRange(ss, lo, hi) ==
    IF lo > hi THEN <<>>
    ELSE IF lo = hi THEN ss[lo]
    ELSE LET mid == (lo + hi) \div 2
         IN  ConcatRange(ss, lo, mid) \o ConcatRange(ss, mid + 1, hi)

\* a Python list built element by element: each element is computed once
List(f) == f \o <<>>

\* b''.join(ss) of a list
Join(ss) == ConcatRange(ss, 1, Len(ss))

\* b''.join(ss)
Concat(ss) == Join(List(ss))

RECURSIVE SumRange(_, _, _)
SumRange(f, lo, hi) ==
    IF lo > hi THEN 0
    ELSE IF lo = hi THEN f[lo]
    ELSE LET mid == (lo + hi) \div 2
         IN  SumRange(f, lo, mid) + SumRange(f, mid + 1, hi)

\* sum(f) of a list
Total(f) == SumRange(f, 1, Len(f))

Sum(f) == Total(List(f))

(***************************************************************************)
(* struct: little-endian fixed-width integers.                             *)
(***************************************************************************)
RECURSIVE LE(_, _)
LE(x, n) == IF n = 0 THEN <<>> ELSE <<x % 256>> \o LE(x \div 256, n - 1)

RECURSIVE FromLE(_)
FromLE(bs) ==
    IF bs = <<>> THEN 0
    ELSE IF \A k \in 2..Len(bs) : bs[k] = 0 THEN bs[1]
    ELSE bs[1] + 256 * FromLE(Tail(bs))

pack_u8(x) == LE(x, 1)
pack_u16(x) == LE(x, 2)
pack_u32(x) == LE(x, 4)
pack_u64(x) == LE(x, 8)
\* struct.pack raises struct.error when the argument is outside the field
fits_u8(x) == x \in 0..(U8_RANGE - 1)
fits_u16(x) == x \in 0..(U16_RANGE - 1)

\* struct.pack('<i', v) for v in the signed 32-bit range (two's complement)
pack_i32(v) == LE(v, 4)
\* struct.unpack('<i', bs)
unpack_i32(bs) ==
    LET low == bs[1] + 256 * bs[2] + 65536 * bs[3]
    IN  IF bs[4] < 128 THEN bs[4] * 16777216 + low
        ELSE (bs[4] - 256) * 16777216 + low

(***************************************************************************)
(* Python text: str.strip, int(), str(int), str.encode, bytes.decode.      *)
(***************************************************************************)
IsDigit(c) == c \in 48..57
IsSpace(c) == c \in {9, 10, 11, 12, 13, 32}

RECURSIVE LStrip(_)
LStrip(t) == IF t # <<>> /\ IsSpace(Head(t)) THEN LStrip(Tail(t)) ELSE t

RECURSIVE RStrip(_)
RStrip(t) ==
    IF t # <<>> /\ IsSpace(t[Len(t)]) THEN RStrip(SubSeq(t, 1, Len(t) - 1)) ELSE t

Strip(t) == RStrip(LStrip(t))

HasSign(t) == t # <<>> /\ Head(t) \in {43, 45}
Unsigned(t) == IF HasSign(t) THEN Tail(t) ELSE t

\* digit (["_"] digit)*
IsDigitPart(t) ==
    /\ t # <<>>
    /\ IsDigit(t[1]) /\ IsDigit(t[Len(t)])
    /\ \A k \in 1..Len(t) : IsDigit(t[k]) \/ t[k] = 95
    /\ \A k \in 1..(Len(t) - 1) : ~(t[k] = 95 /\ t[k + 1] = 95)

\* int(v) does not raise ValueError
int_ok(v) == IsDigitPart(Unsigned(Strip(v)))

RECURSIVE DropZeros(_)
DropZeros(ds) == IF Len(ds) > 1 /\ Head(ds) = 48 THEN DropZeros(Tail(ds)) ELSE ds

\* int(v): an unbounded integer, kept as sign and decimal digits
int_of(v) ==
    LET s == Strip(v)
        ds == DropZeros(SelectSeq(Unsigned(s), IsDigit))
    IN  [neg |-> HasSign(s) /\ Head(s) = 45 /\ ds # <<48>>, digits |-> ds]

\* a <= b for two digit strings without leading zeros
DigitsLeq(a, b) ==
    \/ Len(a) < Len(b)
    \/ /\ Len(a) = Len(b)
       /\ \/ a = b
          \/ \E k \in 1..Len(a) :
                /\ a[k] < b[k]
                /\ \A j \in 1..(k - 1) : a[j] = b[j]

\* struct.pack('<i', n) does not raise struct.error: -2^31 <= n <= 2^31 - 1
fits_i32(n) ==
    IF n.neg THEN DigitsLeq(n.digits, <<50, 49, 52, 55, 52, 56, 51, 54, 52, 56>>)
    ELSE DigitsLeq(n.digits, <<50, 49, 52, 55, 52, 56, 51, 54, 52, 55>>)

RECURSIVE Accumulate(_, _, _)
Accumulate(ds, acc, sign) ==
    IF ds = <<>> THEN acc
    ELSE Accumulate(Tail(ds), acc * 10 + sign * (Head(ds) - 48), sign)

\* the machine integer of an int that fits 32 bits
int_value(n) == Accumulate(n.digits, 0, IF n.neg THEN -1 ELSE 1)

RECURSIVE DigitsOfNonPos(_)
DigitsOfNonPos(v) ==
    LET d == (10 - (v % 10)) % 10
    IN  IF v > -10 THEN <<48 - v>>
        ELSE DigitsOfNonPos((v + d) \div 10) \o <<48 + d>>

\* str(v) for a machine integer
str_int(v) == IF v < 0 THEN <<45>> \o DigitsOfNonPos(v) ELSE DigitsOfNonPos(-v)

IsSurrogate(c) == c \in 55296..57343

\* c.encode('utf-8') for one code point
Utf8Char(c) ==
    IF c < 128 THEN <<c>>
    ELSE IF c < 2048 THEN <<192 + (c \div 64), 128 + (c % 64)>>
    ELSE IF c < 65536 THEN
        <<224 + (c \div 4096), 128 + ((c \div 64) % 64), 128 + (c % 64)>>
    ELSE <<240 + (c \div 262144), 128 + ((c \div 4096) % 64),
           128 + ((c \div 64) % 64), 128 + (c % 64)>>

\* t.encode('utf-8') does not raise UnicodeEncodeError
encode_ok(t) == \A k \in 1..Len(t) : ~IsSurrogate(t[k])

\* t.encode('utf-8')
encode_utf8(t) == Concat([k \in 1..Len(t) |-> Utf8Char(t[k])])

IsCont(b) == b \in 128..191

\* the length of the UTF-8 sequence a lead byte announces, 0 for no lead byte
LeadLen(b) ==
    IF b < 128 THEN 1
    ELSE IF b \in 194..223 THEN 2
    ELSE IF b \in 224..239 THEN 3
    ELSE IF b \in 240..244 THEN 4
    ELSE 0

\* the code point of one well-formed sequence, -1 for an ill-formed one
DecodeOne(bs) ==
    LET n == LeadLen(bs[1])
        c == IF n = 1 THEN bs[1]
             ELSE IF n = 2 THEN (bs[1] - 192) * 64 + (bs[2] - 128)
             ELSE IF n = 3 THEN
                (bs[1] - 224) * 4096 + (bs[2] - 128) * 64 + (bs[3] - 128)
             ELSE (bs[1] - 240) * 262144 + (bs[2] - 128) * 4096
                  + (bs[3] - 128) * 64 + (bs[4] - 128)
    IN  IF n = 0 \/ Len(bs) # n \/ \E k \in 2..Len(bs) : ~IsCont(bs[k]) THEN -1
        ELSE IF n = 3 /\ (c < 2048 \/ IsSurrogate(c)) THEN -1
        ELSE IF n = 4 /\ (c < 65536 \/ c > 1114111) THEN -1
        ELSE c

RECURSIVE DecodeFrom(_, _)
\* the code points of bs from position p (1-based); <<-1>> ends an ill-formed text
DecodeFrom(bs, p) ==
    IF p > Len(bs) THEN <<>>
    ELSE LET n == LeadLen(bs[p])
             c == IF n = 0 \/ p + n - 1 > Len(bs) THEN -1
                  ELSE DecodeOne(SubSeq(bs, p, p + n - 1))
         IN  IF c = -1 THEN <<-1>> ELSE <<c>> \o DecodeFrom(bs, p + n)

\* bs.decode('utf-8') does not raise UnicodeDecodeError
decode_ok(bs) == LET t == DecodeFrom(bs, 1) IN t = <<>> \/ t[Len(t)] # -1

\* bs.decode('utf-8')
decode_utf8(bs) == DecodeFrom(bs, 1)

(***************************************************************************)
(* Python float(): text to an IEEE-754 double, struct '<d', and repr().    *)
(* A finite value is kept as the exact fraction num/den of its text.       *)
(***************************************************************************)
Lower(t) == [k \in 1..Len(t) |-> IF t[k] \in 65..90 THEN t[k] + 32 ELSE t[k]]

IsInfText(u) ==
    Lower(u) \in {<<105, 110, 102>>, <<105, 110, 102, 105, 110, 105, 116, 121>>}
IsNanText(u) == Lower(u) = <<110, 97, 110>>

\* positions of the code points of u that are in cs
Positions(u, cs) == {k \in 1..Len(u) : u[k] \in cs}

\* the part of u before its exponent marker, and the exponent after it
Mantissa(u) ==
    LET es == Positions(u, {69, 101})
    IN  IF es = {} THEN u ELSE SubSeq(u, 1, (CHOOSE k \in es : TRUE) - 1)
Exponent(u) ==
    LET es == Positions(u, {69, 101})
    IN  SubSeq(u, (CHOOSE k \in es : TRUE) + 1, Len(u))
IntPart(m) ==
    LET ds == Positions(m, {46})
    IN  IF ds = {} THEN m ELSE SubSeq(m, 1, (CHOOSE k \in ds : TRUE) - 1)
FracPart(m) ==
    LET ds == Positions(m, {46})
    IN  IF ds = {} THEN <<>> ELSE SubSeq(m, (CHOOSE k \in ds : TRUE) + 1, Len(m))

IsDecimal(u) ==
    LET es == Positions(u, {69, 101})
        m == Mantissa(u)
    IN  /\ Cardinality(es) <= 1
        /\ es # {} => IsDigitPart(Unsigned(Exponent(u)))
        /\ Cardinality(Positions(m, {46})) <= 1
        /\ IntPart(m) # <<>> \/ FracPart(m) # <<>>
        /\ IntPart(m) = <<>> \/ IsDigitPart(IntPart(m))
        /\ FracPart(m) = <<>> \/ IsDigitPart(FracPart(m))

\* float(v) does not raise ValueError
float_ok(v) ==
    LET u == Unsigned(Strip(v))
    IN  IsInfText(u) \/ IsNanText(u) \/ IsDecimal(u)

RECURSIVE Pow(_, _)
Pow(b, n) == IF n = 0 THEN 1 ELSE b * Pow(b, n - 1)

\* float(v) as [kind, neg, num, den]
float_of(v) ==
    LET s == Strip(v)
        u == Unsigned(s)
        neg == HasSign(s) /\ Head(s) = 45
        m == Mantissa(u)
        fd == SelectSeq(FracPart(m), IsDigit)
        md == SelectSeq(IntPart(m), IsDigit) \o fd
        ex == IF Positions(u, {69, 101}) = {} THEN 0
              ELSE LET x == Exponent(u)
                   IN  Accumulate(SelectSeq(Unsigned(x), IsDigit), 0,
                                  IF HasSign(x) /\ Head(x) = 45 THEN -1 ELSE 1)
        sc == ex - Len(fd)
    IN  IF IsInfText(u) THEN [kind |-> "inf", neg |-> neg, num |-> 0, den |-> 1]
        ELSE IF IsNanText(u) THEN [kind |-> "nan", neg |-> neg, num |-> 0, den |-> 1]
        ELSE [kind |-> "finite", neg |-> neg,
              num |-> Accumulate(md, 0, 1) * (IF sc > 0 THEN Pow(10, sc) ELSE 1),
              den |-> IF sc < 0 THEN Pow(10, -sc) ELSE 1]

\* the n-bit big-endian binary form of x
RECURSIVE Bits(_, _)
Bits(x, n) == IF n = 0 THEN <<>> ELSE Bits(x \div 2, n - 1) \o <<x % 2>>

RECURSIVE BitsValue(_)
BitsValue(bs) ==
    IF bs = <<>> THEN 0 ELSE 2 * BitsValue(SubSeq(bs, 1, Len(bs) - 1)) + bs[Len(bs)]

\* the binary exponent e with 2^e <= num/den < 2^(e+1), and the fraction scaled
\* into [1, 2)
RECURSIVE Normalise(_, _, _)
Normalise(n, d, e) ==
    IF n >= 2 * d THEN Normalise(n, 2 * d, e + 1)
    ELSE IF n < d THEN Normalise(2 * n, d, e - 1)
    ELSE [num |-> n, den |-> d, exp |-> e]

\* the next 13 binary digits of r/d (r < d < 2^18), and the remainder left
Digits13(r, d) == [bits |-> Bits((r * 8192) \div d, 13), rem |-> (r * 8192) % d]

\* the first 52 binary digits of r/d, and the remainder left
LongDiv(r, d) ==
    LET c1 == Digits13(r, d)
        c2 == Digits13(c1.rem, d)
        c3 == Digits13(c2.rem, d)
        c4 == Digits13(c3.rem, d)
    IN  [bits |-> c1.bits \o c2.bits \o c3.bits \o c4.bits, rem |-> c4.rem]

\* bs + 1 on a big-endian bit string, wrapping to zeros
RECURSIVE Increment(_)
Increment(bs) ==
    IF bs = <<>> THEN <<>>
    ELSE IF bs[Len(bs)] = 0 THEN SubSeq(bs, 1, Len(bs) - 1) \o <<1>>
    ELSE Increment(SubSeq(bs, 1, Len(bs) - 1)) \o <<0>>

\* the 64 bits (sign, 11 exponent bits, 52 fraction bits) of the double nearest
\* to f, ties to even; normal numbers with num, den < 2^17 only
DoubleBits(f) ==
    LET sign == IF f.neg THEN 1 ELSE 0
    IN  IF f.kind = "inf" THEN <<sign>> \o Bits(2047, 11) \o [k \in 1..52 |-> 0]
        ELSE IF f.kind = "nan" THEN
            <<sign>> \o Bits(2047, 11) \o <<1>> \o [k \in 1..51 |-> 0]
        ELSE IF f.num = 0 THEN <<sign>> \o [k \in 1..63 |-> 0]
        ELSE LET nz == Normalise(f.num, f.den, 0)
                 q == LongDiv(nz.num - nz.den, nz.den)
                 up == \/ 2 * q.rem > nz.den
                       \/ 2 * q.rem = nz.den /\ q.bits[52] = 1
                 carry == up /\ \A k \in 1..52 : q.bits[k] = 1
                 frac == IF up THEN Increment(q.bits) ELSE q.bits
             IN  <<sign>> \o Bits(nz.exp + 1023 + (IF carry THEN 1 ELSE 0), 11)
                 \o frac

\* struct.pack('<d', f)
pack_f64(f) ==
    LET bits == DoubleBits(f)
    IN  [j \in 1..8 |-> BitsValue(SubSeq(bits, 8 * (8 - j) + 1, 8 * (8 - j) + 8))]

\* struct.unpack('<d', bs), as the 64 bits of the double
unpack_f64(bs) == Concat([j \in 1..8 |-> Bits(bs[9 - j], 8)])

\* the decimal digits of m with a point before the last k of them
Fixed(m, k) ==
    LET ds == DigitsOfNonPos(-m)
        pad == [j \in 1..Max(0, k + 1 - Len(ds)) |-> 48] \o ds
        n == Len(pad)
    IN  IF k = 0 THEN pad \o <<46, 48>>
        ELSE SubSeq(pad, 1, n - k) \o <<46>> \o SubSeq(pad, n - k + 1, n)

\* the decimals m / 10^k that float() converts to the double `bits`, among those
\* of at most 4 fraction digits next to the double's truncated value
Decimals(bits) ==
    LET e == BitsValue(SubSeq(bits, 2, 12)) - 1023
        a == 65536 + BitsValue(SubSeq(bits, 13, 28))
        low(k) == IF e >= 16 THEN a * Pow(10, k) * Pow(2, e - 16)
                  ELSE (a * Pow(10, k)) \div Pow(2, 16 - e)
    IN  {d \in UNION {{<<k, low(k) + j>> : j \in 0..3} : k \in 0..4} :
            d[2] < 131072 /\
            DoubleBits([kind |-> "finite", neg |-> bits[1] = 1,
                        num |-> d[2], den |-> Pow(10, d[1])]) = bits}

\* repr(v) of a double: the shortest decimal text that float() converts back to
\* v (fixed notation, the doubles of short decimal texts)
repr_f64(bits) ==
    LET sign == IF bits[1] = 1 THEN <<45>> ELSE <<>>
        expo == BitsValue(SubSeq(bits, 2, 12))
        zero == \A k \in 13..64 : bits[k] = 0
    IN  IF expo = 2047 THEN
            IF zero THEN sign \o <<105, 110, 102>> ELSE <<110, 97, 110>>
        ELSE IF expo = 0 /\ zero THEN sign \o <<48, 46, 48>>
        ELSE LET ds == Decimals(bits)
                 best == CHOOSE d \in ds : \A o \in ds : d[1] <= o[1]
             IN  sign \o Fixed(best[2], best[1])

(***************************************************************************)
(* zlib: a zlib stream holding one stored deflate block, closed by the     *)
(* Adler-32 of the data (what zlib emits at level 0; the format's claims   *)
(* do not depend on the compression ratio).                                *)
(***************************************************************************)
Adler32(data) ==
    LET n == Len(data)
        a == (1 + Sum(data)) % 65521
        b == (n + Sum([k \in 1..n |-> (n - k + 1) * data[k]])) % 65521
    IN  <<b \div 256, b % 256, a \div 256, a % 256>>

\* zlib.compress(data)
compress(data) ==
    <<120, 1, 1>> \o LE(Len(data), 2) \o LE(65535 - Len(data), 2) \o data
    \o Adler32(data)

\* zlib.decompress(comp) does not raise zlib.error
decompress_ok(comp) ==
    /\ Len(comp) >= 11
    /\ SubSeq(comp, 1, 3) = <<120, 1, 1>>
    /\ FromLE(SubSeq(comp, 4, 5)) + FromLE(SubSeq(comp, 6, 7)) = 65535
    /\ Len(comp) >= 11 + FromLE(SubSeq(comp, 4, 5))
    /\ LET n == FromLE(SubSeq(comp, 4, 5))
       IN  SubSeq(comp, 8 + n, 11 + n) = Adler32(SubSeq(comp, 8, 7 + n))

\* zlib.decompress(comp)
decompress(comp) == SubSeq(comp, 8, 7 + FromLE(SubSeq(comp, 4, 5)))

(***************************************************************************)
(* CCFWriter.write(header_cols, rows).                                     *)
(***************************************************************************)
\* a faulty transposition: a short row is padded with its last cell, not with ''
cols_values_repeating(header_cols, rs) ==
    [j \in 1..Len(header_cols) |->
        [i \in 1..Len(rs) |->
            IF j <= Len(rs[i]) THEN rs[i][j]
            ELSE IF rs[i] # <<>> THEN rs[i][Len(rs[i])]
            ELSE <<>>]]

\* the per-column value lists: short rows padded with '', extra cells dropped
cols_values(header_cols, rs) ==
    [j \in 1..Len(header_cols) |->
        [i \in 1..Len(rs) |-> IF j <= Len(rs[i]) THEN rs[i][j] ELSE <<>>]]

\* a faulty bitmap: R div 8 + 1 bytes, one too many when 8 divides R
null_bitmap_extra_byte(values) ==
    [k \in 1..((Len(values) \div 8) + 1) |->
        Sum([b \in 1..8 |->
            LET i == 8 * (k - 1) + b
            IN  IF i <= Len(values) /\ values[i] = <<>> THEN Pow(2, b - 1) ELSE 0])]

\* the null bitmap of a column: bit (i mod 8) of byte (i div 8) set for value i = ''
null_bitmap(values) ==
    [k \in 1..((Len(values) + 7) \div 8) |->
        Sum([b \in 1..8 |->
            LET i == 8 * (k - 1) + b
            IN  IF i <= Len(values) /\ values[i] = <<>> THEN Pow(2, b - 1) ELSE 0])]

\* the exception encoding value v as dtype raises, "none" for none
value_error(dtype, v) ==
    IF v = <<>> THEN "none"
    ELSE IF dtype = DT_INT32 THEN
        IF ~int_ok(v) THEN "ValueError"
        ELSE IF ~fits_i32(int_of(v)) THEN "struct.error"
        ELSE "none"
    ELSE IF dtype = DT_FLOAT64 THEN
        IF ~float_ok(v) THEN "ValueError" ELSE "none"
    ELSE IF ~encode_ok(v) THEN "UnicodeEncodeError"
    ELSE "none"

\* the exception encoding a column raises: that of its first value that raises
\* one, and ValueError('Unknown dtype') for a dtype that is none of the three
column_error(dtype, values) ==
    LET bad == {i \in 1..Len(values) : value_error(dtype, values[i]) # "none"}
    IN  IF dtype \notin {DT_INT32, DT_FLOAT64, DT_STRING} THEN "ValueError"
        ELSE IF bad = {} THEN "none"
        ELSE value_error(dtype, values[CHOOSE i \in bad : \A o \in bad : i <= o])

\* faulty offsets: running counts of code points, not of UTF-8 bytes
string_offsets_in_chars(values) ==
    [i \in 1..(Len(values) + 1) |-> Sum([k \in 1..(i - 1) |-> Len(values[k])])]

\* offsets of a STRING column: num_rows + 1 running byte counts
string_offsets(values) ==
    [i \in 1..(Len(values) + 1) |->
        Sum([k \in 1..(i - 1) |->
            IF values[k] = <<>> THEN 0 ELSE Len(encode_utf8(values[k]))])]

\* the typed payload that follows the bitmap
payload(dtype, values) ==
    IF dtype = DT_INT32 THEN
        Concat([i \in 1..Len(values) |->
            IF values[i] = <<>> THEN pack_i32(0)
            ELSE pack_i32(int_value(int_of(values[i])))])
    ELSE IF dtype = DT_FLOAT64 THEN
        Concat([i \in 1..Len(values) |->
            IF values[i] = <<>>
            THEN pack_f64([kind |-> "finite", neg |-> FALSE, num |-> 0, den |-> 1])
            ELSE pack_f64(float_of(values[i]))])
    ELSE
        LET offsets == string_offsets(values)
        IN  Concat([i \in 1..Len(offsets) |-> pack_u32(offsets[i])])
            \o Concat([i \in 1..Len(values) |->
                    IF values[i] = <<>> THEN <<>> ELSE encode_utf8(values[i])])

\* the uncompressed block of a column
column_block(dtype, values) ==
    LET bitmap == null_bitmap(values)
    IN  pack_u32(Len(bitmap)) \o bitmap \o payload(dtype, values)

\* one header directory entry
header_entry(col, offset, compressed_size, uncompressed_size) ==
    LET name_b == encode_utf8(col[1])
    IN  pack_u16(Len(name_b)) \o name_b \o pack_u8(col[2]) \o pack_u64(offset)
        \o pack_u64(compressed_size) \o pack_u64(uncompressed_size)

\* the exception building a header entry raises, "none" for none
header_error(col) ==
    IF ~encode_ok(col[1]) THEN "UnicodeEncodeError"
    ELSE IF ~fits_u16(Len(encode_utf8(col[1]))) THEN "struct.error"
    ELSE "none"

\* the first exception of a list of outcomes, "none" when none raises
first_error(errs) ==
    LET bad == {j \in 1..Len(errs) : errs[j] # "none"}
    IN  IF bad = {} THEN "none" ELSE errs[CHOOSE j \in bad : \A o \in bad : j <= o]

\* the offsets of two column ranges one after the other
append_range(starts, more) ==
    [starts |-> starts \o more.starts, current |-> more.current]

\* the loop `meta.offset = current; current += meta.compressed_size` over the
\* columns lo..hi: [starts |-> their offsets, current |-> its value afterwards]
RECURSIVE continue_range(_, _, _, _)
RECURSIVE starts_range(_, _, _, _)
starts_range(sizes, lo, hi, current) ==
    IF lo > hi THEN [starts |-> <<>>, current |-> current]
    ELSE IF lo = hi THEN [starts |-> <<current>>, current |-> current + sizes[lo]]
    ELSE continue_range(sizes, (lo + hi) \div 2, hi,
                        starts_range(sizes, lo, (lo + hi) \div 2, current))

\* the same loop carried on over the columns mid + 1..hi after `done`
continue_range(sizes, mid, hi, done) ==
    append_range(done.starts, starts_range(sizes, mid + 1, hi, done.current))

\* faulty offsets: `current` is never advanced
block_offsets_fixed(current, sizes) == [j \in 1..Len(sizes) |-> current]

\* meta.offset of each column: the blocks laid end to end from `current`
block_offsets(current, sizes) ==
    starts_range(sizes, 1, Len(sizes), current).starts

prefix_size == Len(MAGIC) + 1 + 4 + 8 + 2

\* what write() holds when it opens the file: [header_content |-> the directory
\* with the final offsets, blocks |-> the compressed column blocks]
layout(header_cols, uncompressed) ==
    LET num_cols == Len(header_cols)
        blocks == List([j \in 1..num_cols |-> compress(uncompressed[j])])
        csize == List([j \in 1..num_cols |-> Len(blocks[j])])
        usize == List([j \in 1..num_cols |-> Len(uncompressed[j])])
        \* first pass: offsets still 0
        header0 == Concat([j \in 1..num_cols |->
                        header_entry(header_cols[j], 0, csize[j], usize[j])])
        offsets == block_offsets(prefix_size + Len(header0), csize)
    IN  \* second pass: the final offsets
        [header_content |->
            Concat([j \in 1..num_cols |->
                header_entry(header_cols[j], offsets[j], csize[j], usize[j])]),
         blocks |-> blocks]

\* the bytes written before NUM_COLS is packed: MAGIC, VERSION, HEADER_SIZE, NUM_ROWS
file_head(num_rows, out) ==
    MAGIC \o pack_u8(VERSION) \o pack_u32(Len(out.header_content))
    \o pack_u64(num_rows)

\* the whole file
file_bytes(num_cols, num_rows, out) ==
    file_head(num_rows, out) \o pack_u16(num_cols) \o out.header_content
    \o Concat(out.blocks)

\* how write() ends once the columns are encoded and the header entries built:
\* the exception raised first, or the file written
write_result(num_cols, num_rows, enc_err, hdr_err, out, old) ==
    IF enc_err # "none" THEN [res |-> enc_err, disk |-> old]
    ELSE IF hdr_err # "none" THEN [res |-> hdr_err, disk |-> old]
    \* open(out_path, 'wb') has truncated the file when pack_u16 raises
    ELSE IF ~fits_u16(num_cols) THEN
        [res |-> "struct.error",
         disk |-> [exists |-> TRUE, bytes |-> file_head(num_rows, out)]]
    ELSE [res |-> "ok",
          disk |-> [exists |-> TRUE, bytes |-> file_bytes(num_cols, num_rows, out)]]

\* write() on the per-column value lists
write_columns(header_cols, num_rows, values, old) ==
    write_result(
        Len(header_cols),
        num_rows,
        first_error(List([j \in 1..Len(header_cols) |->
                            column_error(header_cols[j][2], values[j])])),
        first_error(List([j \in 1..Len(header_cols) |->
                            header_error(header_cols[j])])),
        layout(header_cols,
               List([j \in 1..Len(header_cols) |->
                       column_block(header_cols[j][2], values[j])])),
        old)

\* what write() does to the file at out_path and how it ends:
\* [res |-> "ok" or the exception raised, disk |-> the file afterwards]
write(header_cols, rs, old) ==
    write_columns(header_cols, Len(rs), cols_values(header_cols, rs), old)

(***************************************************************************)
(* CCFReader: _read_header (run by the constructor) and read_column.       *)
(***************************************************************************)
\* the file positions (0-based) f.read(n) reads at position pos
read_span(bytes, pos, n) == {q \in pos..(pos + n - 1) : q < Len(bytes)}

\* the directory entries parsed from header_bytes at position p (0-based), n to
\* go: [err |-> the exception raised or "none", metas |-> the ColumnMeta list]
RECURSIVE parse_metas(_, _, _)
parse_metas(hb, p, n) ==
    IF n = 0 THEN [err |-> "none", metas |-> <<>>]
    ELSE IF p + 2 > Len(hb) THEN [err |-> "struct.error", metas |-> <<>>]
    ELSE LET name_len == FromLE(Slice(hb, p, p + 2))
             name_b == Slice(hb, p + 2, p + 2 + name_len)
             q == p + 2 + name_len
             rest == parse_metas(hb, q + 25, n - 1)
         IN  IF ~decode_ok(name_b) THEN
                [err |-> "UnicodeDecodeError", metas |-> <<>>]
             ELSE IF q + 25 > Len(hb) THEN [err |-> "struct.error", metas |-> <<>>]
             ELSE [err |-> rest.err,
                   metas |->
                     <<[name |-> decode_utf8(name_b),
                        dtype |-> hb[q + 1],
                        offset |-> FromLE(Slice(hb, q + 1, q + 9)),
                        compressed_size |-> FromLE(Slice(hb, q + 9, q + 17)),
                        uncompressed_size |-> FromLE(Slice(hb, q + 17, q + 25))]>>
                     \o rest.metas]

NoReader == [state |-> "none", num_rows |-> 0, num_cols |-> 0, columns_meta |-> <<>>]

\* CCFReader(path) on a file holding `bytes`: the object built, or how the
\* constructor fails, and the positions it read
read_header(bytes) ==
    LET header_size == FromLE(Slice(bytes, 8, 12))
        num_rows == FromLE(Slice(bytes, 12, 20))
        num_cols == FromLE(Slice(bytes, 20, 22))
        header_bytes == Slice(bytes, 22, 22 + header_size)
        parsed == parse_metas(header_bytes, 0, num_cols)
    IN  IF Slice(bytes, 0, Len(MAGIC)) # MAGIC THEN
            [rd |-> [NoReader EXCEPT !.state = "BadMagic"],
             read |-> read_span(bytes, 0, Len(MAGIC))]
        ELSE IF Len(bytes) < 22 THEN
            [rd |-> [NoReader EXCEPT !.state = "struct.error"],
             read |-> read_span(bytes, 0, 22)]
        ELSE IF parsed.err # "none" THEN
            [rd |-> [state |-> parsed.err, num_rows |-> num_rows,
                     num_cols |-> num_cols, columns_meta |-> <<>>],
             read |-> read_span(bytes, 0, 22 + header_size)]
        ELSE
            [rd |-> [state |-> "Ready", num_rows |-> num_rows,
                     num_cols |-> num_cols, columns_meta |-> parsed.metas],
             read |-> read_span(bytes, 0, 22 + header_size)]

\* the entries of columns_meta named col_name
matches(r, col_name) ==
    {j \in 1..Len(r.columns_meta) : r.columns_meta[j].name = col_name}

\* the entry read_column picks: the first of that name
find_meta(r, col_name) ==
    LET found == matches(r, col_name)
    IN  r.columns_meta[CHOOSE j \in found : \A o \in found : j <= o]

\* a faulty read: from the column's offset to the end of the file
column_span_to_end(bytes, meta) == read_span(bytes, meta.offset, Len(bytes))

\* the file positions read_column reads for meta: seek(offset), read(compressed_size)
column_span(bytes, meta) == read_span(bytes, meta.offset, meta.compressed_size)

\* a faulty is_null: the bitmap is not consulted
is_null_never(bitmap, i) == FALSE

\* is_null(i), i from 0, on a bitmap that holds byte i div 8
is_null(bitmap, i) == (bitmap[(i \div 8) + 1] \div Pow(2, i % 8)) % 2 = 1

Raised(e) == [err |-> e, val |-> <<>>]
Value(v) == [err |-> "none", val |-> v]

\* the element of row i (from 0) of a decompressed block, or the exception
\* decoding it raises
row_value(dtype, num_rows, bitmap, body, i) ==
    IF dtype = DT_INT32 THEN
        IF 4 * (i + 1) > Len(body) THEN Raised("struct.error")
        ELSE IF (i \div 8) + 1 > Len(bitmap) THEN Raised("IndexError")
        ELSE IF is_null(bitmap, i) THEN Value(NoneVal)
        ELSE Value(str_int(unpack_i32(Slice(body, 4 * i, 4 * i + 4))))
    ELSE IF dtype = DT_FLOAT64 THEN
        IF 8 * (i + 1) > Len(body) THEN Raised("struct.error")
        ELSE IF (i \div 8) + 1 > Len(bitmap) THEN Raised("IndexError")
        ELSE IF is_null(bitmap, i) THEN Value(NoneVal)
        ELSE Value(repr_f64(unpack_f64(Slice(body, 8 * i, 8 * i + 8))))
    ELSE
        LET concat == Slice(body, 4 * (num_rows + 1), Len(body))
            from == FromLE(Slice(body, 4 * i, 4 * i + 4))
            to == FromLE(Slice(body, 4 * i + 4, 4 * i + 8))
            s == Slice(concat, from, to)
        IN  IF (i \div 8) + 1 > Len(bitmap) THEN Raised("IndexError")
            ELSE IF is_null(bitmap, i) THEN Value(NoneVal)
            ELSE IF ~decode_ok(s) THEN Raised("UnicodeDecodeError")
            ELSE Value(decode_utf8(s))

\* the values read_column returns for the decoded rows `out`, or the exception
\* of the first row that raises one
rows_result(out) ==
    LET bad == {k \in 1..Len(out) : out[k].err # "none"}
    IN  IF bad # {} THEN
            [kind |-> out[CHOOSE k \in bad : \A o \in bad : k <= o].err,
             values |-> <<>>]
        ELSE [kind |-> "values", values |-> [k \in 1..Len(out) |-> out[k].val]]

\* the rows decoded from a block split into its bitmap and its typed payload
typed_block(dtype, num_rows, bitmap, body) ==
    IF dtype \notin {DT_INT32, DT_FLOAT64, DT_STRING} THEN
        [kind |-> "ValueError", values |-> <<>>]
    ELSE IF dtype = DT_STRING /\ Len(body) < 4 * (num_rows + 1) THEN
        [kind |-> "struct.error", values |-> <<>>]
    ELSE rows_result([k \in 1..num_rows |->
                        row_value(dtype, num_rows, bitmap, body, k - 1)])

\* the block after its nb_len prefix: the bitmap, then the typed payload
split_block(dtype, num_rows, un, nb_len) ==
    typed_block(dtype, num_rows, Slice(un, 4, 4 + nb_len),
                Slice(un, 4 + nb_len, Len(un)))

\* the values read_column decodes from the decompressed block `un`, or the
\* exception it raises: [kind |-> "values" or the exception, values |-> <<...>>]
decode_block(dtype, num_rows, un) ==
    IF Len(un) < 4 THEN [kind |-> "struct.error", values |-> <<>>]
    ELSE split_block(dtype, num_rows, un, FromLE(Slice(un, 0, 4)))

\* what read_column returns or raises for the compressed block `comp`
read_block(dtype, num_rows, comp) ==
    IF ~decompress_ok(comp) THEN [kind |-> "zlib.error", values |-> <<>>]
    ELSE decode_block(dtype, num_rows, decompress(comp))

\* read_column once the column's meta is found
read_meta(num_rows, bytes, meta, col_name) ==
    [name |-> col_name, read |-> column_span(bytes, meta)]
    @@ read_block(meta.dtype, num_rows,
                  Slice(bytes, meta.offset, meta.offset + meta.compressed_size))

\* reader.read_column(col_name) on a file holding `bytes`: what it returns or
\* raises, and the file positions it read
read_column(r, bytes, col_name) ==
    IF matches(r, col_name) = {} THEN
        [kind |-> "KeyError", values |-> <<>>, name |-> col_name, read |-> {}]
    ELSE read_meta(r.num_rows, bytes, find_meta(r, col_name), col_name)

\* infer_type(values)
infer_type(values) ==
    LET filled == {i \in 1..Len(values) : values[i] # <<>>}
        is_int == \A i \in filled : int_ok(values[i])
        is_float == \A i \in filled : int_ok(values[i]) \/ float_ok(values[i])
    IN  IF is_int THEN DT_INT32
        ELSE IF is_float THEN DT_FLOAT64
        ELSE DT_STRING

(***************************************************************************)
(* The state machine: one writer call, one reader, any number of reads.    *)
(***************************************************************************)
NoFile == [exists |-> FALSE, bytes |-> <<>>]
NoRet == [kind |-> "none", values |-> <<>>, name |-> <<>>, read |-> {}]

\* CCFWriter(out_path).write(schema, rows); the file is not rewritten under a reader
Write ==
    /\ wres = "none"
    /\ rd.state = "none"
    /\ \E out \in {write(schema, rows, disk)} :
          /\ wres' = out.res
          /\ disk' = out.disk
    /\ UNCHANGED <<schema, rows, rd, reads, asked, ret, inferred>>

\* 65536 columns: one more than NUM_COLS holds
WideSchema == [j \in 1..U16_RANGE |-> <<<<97>>, DT_STRING>>]

\* CCFWriter(out_path).write(WideSchema, []): the widest table is an input of the
\* call alone, schema and rows keep the empty table
WriteWide ==
    /\ wres = "none"
    /\ rd.state = "none"
    /\ schema = <<>>
    /\ rows = <<>>
    /\ \E out \in {write(WideSchema, <<>>, disk)} :
          /\ wres' = out.res
          /\ disk' = out.disk
    /\ UNCHANGED <<schema, rows, rd, reads, asked, ret, inferred>>

\* CCFReader(path)
Open ==
    /\ disk.exists
    /\ rd.state = "none"
    /\ LET h == read_header(disk.bytes)
       IN  /\ rd' = h.rd
           /\ reads' = h.read
    /\ UNCHANGED <<schema, rows, disk, wres, asked, ret, inferred>>

\* a name no column has
Missing == <<122, 122>>
Names == {schema[j][1] : j \in 1..Len(schema)} \cup {Missing}

\* reader.read_column(name) on a Ready reader
ReadColumn ==
    /\ rd.state = "Ready"
    /\ \E name \in Names :
          /\ ret' = read_column(rd, disk.bytes, name)
          /\ reads' = reads \cup ret'.read
          /\ asked' = asked \cup {name}
    /\ UNCHANGED <<schema, rows, disk, wres, rd, inferred>>

\* a file that is not this writer's: one of the first 8 bytes (MAGIC, VERSION) of
\* a written file differs
Tamper ==
    /\ disk.exists
    /\ rd.state = "none"
    /\ Slice(disk.bytes, 0, 8) = MAGIC \o pack_u8(VERSION)
    /\ \E p \in {1, 7, 8}, b \in {0, 2} :
          /\ disk.bytes[p] # b
          /\ disk' = [disk EXCEPT !.bytes[p] = b]
    /\ UNCHANGED <<schema, rows, wres, rd, reads, asked, ret, inferred>>

\* the uncompressed block of a STRING column whose R + 1 offsets are offs, with no
\* null row
foreign_block(offs, bytes) ==
    LET bitmap == [k \in 1..((Len(offs) + 6) \div 8) |-> 0]
    IN  pack_u32(Len(bitmap)) \o bitmap
        \o Concat([i \in 1..Len(offs) |-> pack_u32(offs[i])]) \o bytes

MaxCraftRows == 2
MaxOffset == 3
CraftPayload == <<97, 98>>

\* a file that is not this writer's: a well-formed one-column STRING file whose
\* block holds any offsets up to MaxOffset before a payload of up to two bytes
Craft ==
    /\ ~disk.exists
    /\ rd.state = "none"
    /\ Len(schema) = 1
    /\ \E R \in 1..MaxCraftRows, n \in 0..Len(CraftPayload) :
          \E offs \in [1..(R + 1) -> 0..MaxOffset] :
              disk' = [exists |-> TRUE,
                       bytes |-> file_bytes(1, R,
                                    layout(schema,
                                        <<foreign_block(offs,
                                            SubSeq(CraftPayload, 1, n))>>))]
    /\ UNCHANGED <<schema, rows, wres, rd, reads, asked, ret, inferred>>

\* infer_type on the first cells of the rows
Infer ==
    /\ inferred = -1
    /\ inferred' = infer_type([i \in 1..Len(rows) |-> rows[i][1]])
    /\ UNCHANGED <<schema, rows, disk, wres, rd, reads, asked, ret>>

Idle ==
    /\ wres = "none"
    /\ rd = NoReader
    /\ reads = {}
    /\ asked = {}
    /\ ret = NoRet
    /\ inferred = -1

\* all sequences over S of length at most n
SeqsUpTo(S, n) == UNION {[1..k -> S] : k \in 0..n}

(***************************************************************************)
(* Spec: tables of up to MaxCols columns and MaxRows rows are written,     *)
(* then read back column by column.                                        *)
(***************************************************************************)
MaxCols == 2
MaxRows == 2

\* "a" INT32, "bb" STRING, "c" FLOAT64
Columns == <<<<<<97>>, DT_INT32>>, <<<<98, 98>>, DT_STRING>>, <<<<99>>, DT_FLOAT64>>>>
\* the schemas: up to MaxCols neighbouring columns of Columns
Schemas ==
    {SubSeq(Columns, i, j) : i \in 1..(Len(Columns) + 1), j \in 0..Len(Columns)}
    \cap SeqsUpTo({Columns[k] : k \in 1..Len(Columns)}, MaxCols)
\* '', "7", "12": text every type encodes
CellTexts == {<<>>, <<55>>, <<49, 50>>}

\* the rows of a table of n columns: every cell of a row holds the same text
UniformRows(n) ==
    SeqsUpTo({[j \in 1..n |-> t] : t \in CellTexts}, MaxRows)

Init ==
    /\ schema \in Schemas
    /\ rows \in UniformRows(Len(schema))
    /\ disk = NoFile
    /\ Idle

Next == Write \/ Open \/ ReadColumn

Spec == Init /\ [][Next]_vars

\* the directory of the file on disk, as the format lays it out
Directory == read_header(disk.bytes).rd.columns_meta
HEADER_SIZE == FromLE(Slice(disk.bytes, 8, 12))
Range(meta) == meta.offset..(meta.offset + meta.compressed_size - 1)

\* C3 (offsets partition): in every file a successful write produces, the first
\* column's offset is 22 + HEADER_SIZE, each later column's offset is the
\* previous column's offset plus its compressed_size, so the compressed ranges
\* are pairwise disjoint, lie after the header region, follow directory order,
\* and the last one ends at the end of the file.
C3_OffsetsPartition ==
    wres = "ok" =>
        LET d == Directory
            n == Len(d)
        IN  /\ n = Len(schema)
            /\ n > 0 => d[1].offset = 22 + HEADER_SIZE
            /\ \A j \in 1..(n - 1) :
                  d[j + 1].offset = d[j].offset + d[j].compressed_size
            /\ \A j \in 1..n : \A q \in Range(d[j]) : q >= 22 + HEADER_SIZE
            /\ \A j, k \in 1..n : j < k =>
                  /\ Range(d[j]) \cap Range(d[k]) = {}
                  /\ \A q \in Range(d[j]) : \A q2 \in Range(d[k]) : q < q2
            /\ Len(disk.bytes) =
                  IF n = 0 THEN 22 + HEADER_SIZE
                  ELSE d[n].offset + d[n].compressed_size

\* a table of two columns with rows has been written
C3_Witness ==
    /\ wres = "ok"
    /\ Len(schema) = 2
    /\ schema[1] # schema[2]
    /\ Len(rows) = 2
    /\ Len(Directory) = 2
    /\ Directory[2].offset > Directory[1].offset

\* C4 (selective-read locality): a reader built on a file reads, however often
\* read_column is called, only positions inside [0, 22 + HEADER_SIZE) and
\* inside the compressed range of the columns asked for; no position of any
\* other column's compressed range is read.
C4_ReadLocality ==
    rd.state = "Ready" =>
        LET found == {find_meta(rd, k) : k \in {a \in asked : matches(rd, a) # {}}}
        IN  /\ reads \subseteq
                  (0..(22 + HEADER_SIZE - 1)) \cup UNION {Range(m) : m \in found}
            /\ \A j \in 1..Len(rd.columns_meta) :
                  rd.columns_meta[j] \notin found =>
                      Range(rd.columns_meta[j]) \cap reads = {}

\* one column of a two-column file has been read, and only it
C4_Witness ==
    /\ rd.state = "Ready"
    /\ Len(rd.columns_meta) = 2
    /\ Len(rows) = 2
    /\ asked = {schema[1][1]}
    /\ schema[2][1] # schema[1][1]
    /\ ret.kind = "values"
    /\ Range(rd.columns_meta[1]) \subseteq reads

\* the decompressed block of a directory entry of the file on disk
Block(meta) ==
    decompress(Slice(disk.bytes, meta.offset, meta.offset + meta.compressed_size))

\* the first cell of every row
FirstCells == [i \in 1..Len(rows) |-> rows[i][1]]

(***************************************************************************)
(* SpecStr: a table whose only column is STRING is written and read back.  *)
(***************************************************************************)
MaxStrLen == 2
MaxStrRows == 2

StringSchema == <<<<<<115>>, DT_STRING>>>>
\* code points of 1, 2, 3 and 4 UTF-8 bytes: a, e-acute, euro sign, U+1F600
Sample == <<97, 233, 8364, 128512>>
\* '' and the pieces of Sample of up to MaxStrLen code points
StrTexts ==
    {SubSeq(Sample, i, j) : i \in 1..(Len(Sample) + 1), j \in 0..Len(Sample)}
    \cap SeqsUpTo({Sample[k] : k \in 1..Len(Sample)}, MaxStrLen)

InitStr ==
    /\ schema = StringSchema
    /\ rows \in SeqsUpTo({<<t>> : t \in StrTexts}, MaxStrRows)
    /\ disk = NoFile
    /\ Idle

SpecStr == InitStr /\ [][Next]_vars

\* what read_column is to return for the input texts: None for '', else the text
Expected == [i \in 1..Len(rows) |-> IF rows[i][1] = <<>> THEN NoneVal ELSE rows[i][1]]

\* C1 (string round-trip): for a table whose single column is STRING, write
\* succeeds and read_column on that column returns exactly R elements, element
\* i being None when input value i is '' and input value i otherwise.
C1_StringRoundTrip ==
    /\ wres \in {"none", "ok"}
    /\ rd.state \in {"none", "Ready"}
    /\ ret.name = StringSchema[1][1] =>
          /\ ret.kind = "values"
          /\ Len(ret.values) = Len(rows)
          /\ ret.values = Expected

\* two rows were read back: a null, and a text of more bytes than code points
C1_Witness ==
    /\ ret.kind = "values"
    /\ ret.name = StringSchema[1][1]
    /\ Len(rows) = 2
    /\ rows[1][1] = <<>>
    /\ \E k \in 1..Len(rows[2][1]) : rows[2][1][k] > 127
    /\ ret.values[1] = NoneVal
    /\ ret.values[2] = rows[2][1]

(***************************************************************************)
(* SpecInt: a table whose only column is INT32 holds '' or canonical       *)
(* base-10 integers of the signed 32-bit range.                            *)
(***************************************************************************)
MaxIntRows == 2

IntSchema == <<<<<<110>>, DT_INT32>>>>
\* '', "0", "7", "-1", "-30", "2147483647", "-2147483648"
IntTexts ==
    {<<>>, <<48>>, <<55>>, <<45, 49>>, <<45, 51, 48>>,
     <<50, 49, 52, 55, 52, 56, 51, 54, 52, 55>>,
     <<45, 50, 49, 52, 55, 52, 56, 51, 54, 52, 56>>}

InitInt ==
    /\ schema = IntSchema
    /\ rows \in SeqsUpTo({<<t>> : t \in IntTexts}, MaxIntRows)
    /\ disk = NoFile
    /\ Idle

SpecInt == InitInt /\ [][Next]_vars

\* C2 (integer round-trip): for an INT32 column of '' and canonical integers in
\* [-2^31, 2^31 - 1], write succeeds and read_column returns exactly R elements,
\* element i being None when input i is '' (never the text "0" of the zero
\* written in its slot) and the canonical text of the same integer otherwise.
C2_IntRoundTrip ==
    /\ wres \in {"none", "ok"}
    /\ rd.state \in {"none", "Ready"}
    /\ ret.name = IntSchema[1][1] =>
          /\ ret.kind = "values"
          /\ Len(ret.values) = Len(rows)
          /\ \A i \in 1..Len(rows) :
                ret.values[i] = IF rows[i][1] = <<>> THEN NoneVal ELSE rows[i][1]

\* a null and the least integer were read back
C2_Witness ==
    /\ ret.kind = "values"
    /\ ret.name = IntSchema[1][1]
    /\ Len(rows) = 2
    /\ rows[1][1] = <<>>
    /\ ret.values[1] = NoneVal
    /\ rows[2][1] = <<45, 50, 49, 52, 55, 52, 56, 51, 54, 52, 56>>
    /\ ret.values[2] = rows[2][1]

(***************************************************************************)
(* SpecRows: rows shorter and longer than the schema are written.          *)
(***************************************************************************)
\* the cell of column j in a row of kind t: two digits
Cell(t, j) == <<48 + t, 48 + j>>
\* rows of 0 to MaxCols + 1 cells, of two kinds
RaggedRows ==
    {[j \in 1..n |-> Cell(t, j)] : t \in 1..2, n \in 0..(MaxCols + 1)}

InitRows ==
    /\ schema \in Schemas
    /\ rows \in SeqsUpTo(RaggedRows, MaxRows)
    /\ disk = NoFile
    /\ Idle

NextRows == Write

SpecRows == InitRows /\ [][NextRows]_vars

\* the rows cut to the first C cells
Trimmed ==
    [i \in 1..Len(rows) |-> SubSeq(rows[i], 1, Min(Len(rows[i]), Len(schema)))]

\* C5 (row-length normalisation): for C columns and R rows of any lengths,
\* write succeeds, the file has num_rows = R, and the block of column j encodes
\* exactly the R values rows[i][j] where row i has a cell j and '' where it has
\* none; the cells past the C-th change nothing in the file.
C5_RowNormalisation ==
    wres # "none" =>
        /\ wres = "ok"
        /\ read_header(disk.bytes).rd.num_rows = Len(rows)
        /\ Len(Directory) = Len(schema)
        /\ \A j \in 1..Len(schema) :
              Block(Directory[j]) =
                  column_block(schema[j][2],
                      [i \in 1..Len(rows) |->
                          IF Len(rows[i]) >= j THEN rows[i][j] ELSE <<>>])
        /\ disk = write(schema, Trimmed, NoFile).disk

\* a table of two columns was written from an empty row and a row of three cells
C5_Witness ==
    /\ wres = "ok"
    /\ Len(schema) = 2
    /\ Len(rows) = 2
    /\ Len(rows[1]) = 0
    /\ Len(rows[2]) = 3
    /\ Len(Directory) = 2

(***************************************************************************)
(* SpecOpen: a written file, or one whose first 8 bytes were changed, is   *)
(* opened.                                                                 *)
(***************************************************************************)
NextOpen == Write \/ Tamper \/ Open \/ ReadColumn

SpecOpen == Init /\ [][NextOpen]_vars

\* C6 (reader validation): a reader is Ready only if the file's first 7 bytes
\* are MAGIC and its VERSION byte is 1; wrong magic fails construction with
\* BadMagic, right magic with another VERSION byte with UnsupportedVersion.
C6_ReaderValidation ==
    rd.state # "none" =>
        LET magic_ok == Slice(disk.bytes, 0, Len(MAGIC)) = MAGIC
            version == disk.bytes[Len(MAGIC) + 1]
        IN  /\ rd.state = "Ready" => magic_ok /\ version = VERSION
            /\ ~magic_ok => rd.state = "BadMagic"
            /\ magic_ok /\ version # VERSION => rd.state = "UnsupportedVersion"

(***************************************************************************)
(* SpecCraft: a one-column STRING file with arbitrary offsets is read.     *)
(***************************************************************************)
InitCraft ==
    /\ schema = StringSchema
    /\ rows = <<>>
    /\ disk = NoFile
    /\ Idle

NextCraft == Craft \/ Open \/ ReadColumn

SpecCraft == InitCraft /\ [][NextCraft]_vars

\* offsets[i] (i from 0) of the decompressed STRING block un
OffsetAt(un, i) ==
    LET nb_len == FromLE(Slice(un, 0, 4))
    IN  FromLE(Slice(un, 4 + nb_len + 4 * i, 4 + nb_len + 4 * i + 4))
\* the payload length of the decompressed STRING block un of R rows
PayloadLen(un, R) == Len(un) - 4 - FromLE(Slice(un, 0, 4)) - 4 * (R + 1)

\* C7 (invalid string offsets are fatal): read_column returns values for a
\* STRING column only if the block's offsets are non-decreasing and the last
\* one does not exceed the payload length.
C7_InvalidOffsetsFatal ==
    (rd.state = "Ready" /\ ret.kind = "values" /\ ret.name = StringSchema[1][1]) =>
        LET un == Block(rd.columns_meta[1])
            R == rd.num_rows
        IN  /\ \A i \in 0..(R - 1) : OffsetAt(un, i) <= OffsetAt(un, i + 1)
            /\ OffsetAt(un, R) <= PayloadLen(un, R)

(***************************************************************************)
(* SpecFail: write is called on inputs it rejects, with and without a file *)
(* already at out_path.                                                    *)
(***************************************************************************)
MaxFailRows == 2

\* one column "a" of type code 0, 1, 2 or the unknown 3
FailSchemas == {<<<<<<97>>, d>>>> : d \in 0..3}
\* "2147483648": an integer no INT32 holds
TooBig == <<50, 49, 52, 55, 52, 56, 51, 54, 52, 56>>
\* '', "7", "x", and TooBig except under FLOAT64, whose doubles here are small
FailTexts(dtype) ==
    {<<>>, <<55>>, <<120>>} \cup (IF dtype = DT_FLOAT64 THEN {} ELSE {TooBig})
\* the file of an earlier write of the empty table
OldFile == write(<<>>, <<>>, NoFile).disk

InitFail ==
    /\ \/ /\ schema \in FailSchemas
          /\ rows \in SeqsUpTo({<<t>> : t \in FailTexts(schema[1][2])}, MaxFailRows)
       \/ /\ schema = <<>>
          /\ rows = <<>>
    /\ disk \in {NoFile, OldFile}
    /\ Idle

NextFail == Write \/ WriteWide

SpecFail == InitFail /\ [][NextFail]_vars

\* C8 (writer failure atomicity): a write that fails leaves out_path as it was
\* before the call.
C8_FailureLeavesPath ==
    [][(wres = "none" /\ wres' \notin {"none", "ok"}) => disk' = disk]_vars

(***************************************************************************)
(* SpecInfer: infer_type on a column of texts.                             *)
(***************************************************************************)
MaxInferRows == 2

\* '', "7", "-12", "1.5", "x", "1e5", "2147483647", "2147483648", "-2147483649"
InferTexts ==
    {<<>>, <<55>>, <<45, 49, 50>>, <<49, 46, 53>>, <<120>>, <<49, 101, 53>>,
     <<50, 49, 52, 55, 52, 56, 51, 54, 52, 55>>,
     <<50, 49, 52, 55, 52, 56, 51, 54, 52, 56>>,
     <<45, 50, 49, 52, 55, 52, 56, 51, 54, 52, 57>>}

InitInfer ==
    /\ schema = StringSchema
    /\ rows \in SeqsUpTo({<<t>> : t \in InferTexts}, MaxInferRows)
    /\ disk = NoFile
    /\ Idle

NextInfer == Infer

SpecInfer == InitInfer /\ [][NextInfer]_vars

\* C9 (type inference rule): ignoring '', infer_type returns INT32 iff every
\* value is a base-10 signed integer of the signed 32-bit range, FLOAT64 iff
\* that fails but every value parses as a decimal float (so for a column
\* holding an integer outside that range), and STRING otherwise.
C9_InferenceRule ==
    inferred # -1 =>
        LET filled == {i \in 1..Len(rows) : FirstCells[i] # <<>>}
            all_int32 == \A i \in filled :
                            /\ int_ok(FirstCells[i])
                            /\ fits_i32(int_of(FirstCells[i]))
            all_float == \A i \in filled : float_ok(FirstCells[i])
        IN  inferred = IF all_int32 THEN DT_INT32
                       ELSE IF all_float THEN DT_FLOAT64
                       ELSE DT_STRING

(***************************************************************************)
(* SpecBitmap: one column of any type, of up to MaxBitmapRows rows of      *)
(* which at most two, or all, are null.                                    *)
(***************************************************************************)
MaxBitmapRows == 9

\* the column of R rows whose rows in N hold '' and whose other rows hold "5"
Marked(R, N) == [i \in 1..R |-> IF i \in N THEN <<<<>>>> ELSE <<<<53>>>>]

InitBitmap ==
    /\ schema \in {<<<<<<97>>, d>>>> : d \in {DT_INT32, DT_FLOAT64, DT_STRING}}
    /\ \E R \in 0..MaxBitmapRows :
          \E N \in {M \in SUBSET (1..R) : Cardinality(M) <= 2 \/ M = 1..R} :
              rows = Marked(R, N)
    /\ disk = NoFile
    /\ Idle

SpecBitmap == InitBitmap /\ [][NextRows]_vars

\* bit i (from 0) of the bitmap bytes
BitAt(bitmap, i) == (bitmap[(i \div 8) + 1] \div Pow(2, i % 8)) % 2

\* C10 (null bitmap shape): the uncompressed block of a written column starts
\* with nb_len = ceil(R/8), then holds exactly nb_len bitmap bytes, bit
\* (i mod 8) of byte (i div 8) being 1 iff input value i is '' for i < R and
\* 0 for i >= R; the typed payload of the R values follows.
C10_BitmapShape ==
    wres = "ok" =>
        LET un == Block(Directory[1])
            R == Len(rows)
            nb_len == FromLE(Slice(un, 0, 4))
            bitmap == Slice(un, 4, 4 + nb_len)
            filled == Cardinality({i \in 1..R : rows[i][1] # <<>>})
        IN  /\ nb_len = (R + 7) \div 8
            /\ Len(bitmap) = nb_len
            /\ \A i \in 0..(8 * nb_len - 1) :
                  BitAt(bitmap, i) = 1 <=> (i < R /\ rows[i + 1][1] = <<>>)
            /\ Len(un) - 4 - nb_len =
                  IF schema[1][2] = DT_INT32 THEN 4 * R
                  ELSE IF schema[1][2] = DT_FLOAT64 THEN 8 * R
                  ELSE 4 * (R + 1) + filled

\* a column of nine rows, the first and the last null, was written: the second
\* bitmap byte has spare bits
C10_Witness ==
    /\ wres = "ok"
    /\ Len(rows) = 9
    /\ rows[1][1] = <<>>
    /\ rows[9][1] = <<>>
    /\ rows[2][1] # <<>>
    /\ FromLE(Slice(Block(Directory[1]), 0, 4)) = 2

====
